---- MODULE Spec2Model ----
(***************************************************************************)
(* Model of the polycube enumerator of cubes.py: the numpy grid operations *)
(* it uses, its pure functions (all_rotations, crop_cube, expand_cube,     *)
(* rle, cube_exists_rle) and the recursive generator generate_polycubes    *)
(* with its on-disk cache.                                                 *)
(*                                                                         *)
(* A numpy byte array of shape (X,Y,Z) holding only 0 and 1 is the record  *)
(* [shape |-> <<X,Y,Z>>, cells |-> the set of 0-based indices holding 1].  *)
(* numpy axis a (0, 1, 2) is component a+1 of a TLA+ tuple.                *)
(***************************************************************************)
EXTENDS Integers, Sequences, FiniteSets, TLC

\* ------------------------------------------------------------- bounds
\* largest size n a caller asks for
MaxN == 5
\* sizes below 1 a caller asks for: n ranges over (1 - NegN) .. MaxN
NegN == 2
\* the pure functions are applied to every {0,1} array of volume <= MaxVol
MaxVol == 8
\* rle is compared on every pair of arrays of volume <= MaxPairVol
MaxPairVol == 4

\* ------------------------------------------------------ numpy arrays
Box(shape) ==
  {<<x, y, z>> : x \in 0 .. shape[1] - 1, y \in 0 .. shape[2] - 1, z \in 0 .. shape[3] - 1}

Volume(shape) == shape[1] * shape[2] * shape[3]

\* np.ones(shape, dtype=np.byte)
ones(shape) == [shape |-> shape, cells |-> Box(shape)]

\* the index of position i (0-based) of the row-major (C order) flattening
Unravel(i, shape) ==
  <<i \div (shape[2] * shape[3]), (i \div shape[3]) % shape[2], i % shape[3]>>

\* polycube.flat : the cells in row-major order
flat(m) ==
  [i \in 1 .. Volume(m.shape) |-> IF Unravel(i - 1, m.shape) \in m.cells THEN 1 ELSE 0]

\* m.nonzero() : the indices of the non-zero cells, in row-major order
nonzero(m) ==
  LET pos == SelectSeq([i \in 1 .. Volume(m.shape) |-> i - 1],
                       LAMBDA i : Unravel(i, m.shape) \in m.cells)
  IN  [j \in 1 .. Len(pos) |-> Unravel(pos[j], m.shape)]

SwapTuple(t, a, b) == [t EXCEPT ![a + 1] = t[b + 1], ![b + 1] = t[a + 1]]

\* np.swapaxes(m, a, b), which is also np.transpose by the axes list rot90 builds
swapaxes(m, a, b) ==
  [shape |-> SwapTuple(m.shape, a, b), cells |-> {SwapTuple(c, a, b) : c \in m.cells}]

\* np.flip(m, ax)
flip(m, ax) ==
  [shape |-> m.shape,
   cells |-> {[c EXCEPT ![ax + 1] = m.shape[ax + 1] - 1 - c[ax + 1]] : c \in m.cells}]

\* flip without the reversal of one parity: a 90 degree turn becomes a reflection
rot90_noflip(m, k, a, b) ==
  IF k % 4 = 0 THEN m
  ELSE IF k % 4 = 2 THEN flip(flip(m, a), b)
  ELSE swapaxes(m, a, b)

\* np.rot90(m, k, axes=(a, b)), as numpy defines it
rot90(m, k, a, b) ==
  IF k % 4 = 0 THEN m
  ELSE IF k % 4 = 2 THEN flip(flip(m, a), b)
  ELSE IF k % 4 = 1 THEN swapaxes(flip(m, b), a, b)
  ELSE flip(swapaxes(m, a, b), b)

\* np.pad(cube, 1, 'constant', constant_values=0)
pad(cube) ==
  [shape |-> <<cube.shape[1] + 2, cube.shape[2] + 2, cube.shape[3] + 2>>,
   cells |-> {<<c[1] + 1, c[2] + 1, c[3] + 1>> : c \in cube.cells}]

\* ---------------------------------------------------- all_rotations
\* three of the four rotations in the plane
single_axis_rotation_3(polycube, a, b) == [i \in 1 .. 3 |-> rot90(polycube, i - 1, a, b)]

\* the four rotations of the array in the plane of axes a and b
single_axis_rotation(polycube, a, b) == [i \in 1 .. 4 |-> rot90(polycube, i - 1, a, b)]

\* the last four start from the same quarter turn as the four before them
all_rotations_repeat(polycube) ==
  single_axis_rotation(polycube, 1, 2)
  \o single_axis_rotation(rot90(polycube, 2, 0, 2), 1, 2)
  \o single_axis_rotation(rot90(polycube, 1, 0, 2), 0, 1)
  \o single_axis_rotation(rot90(polycube, -1, 0, 2), 0, 1)
  \o single_axis_rotation(rot90(polycube, 1, 0, 1), 0, 2)
  \o single_axis_rotation(rot90(polycube, 1, 0, 1), 0, 2)

all_rotations(polycube) ==
  single_axis_rotation(polycube, 1, 2)
  \o single_axis_rotation(rot90(polycube, 2, 0, 2), 1, 2)
  \o single_axis_rotation(rot90(polycube, 1, 0, 2), 0, 1)
  \o single_axis_rotation(rot90(polycube, -1, 0, 2), 0, 1)
  \o single_axis_rotation(rot90(polycube, 1, 0, 1), 0, 2)
  \o single_axis_rotation(rot90(polycube, -1, 0, 1), 0, 2)

\* -------------------------------------------------------- crop_cube
\* cube[1:] along axis ax
DropFirst(cube, ax) ==
  [shape |-> [cube.shape EXCEPT ![ax + 1] = @ - 1],
   cells |-> {[c EXCEPT ![ax + 1] = @ - 1] : c \in cube.cells \ {d \in cube.cells : d[ax + 1] = 0}}]

\* cube[:-1] along axis ax
DropLast(cube, ax) ==
  [shape |-> [cube.shape EXCEPT ![ax + 1] = @ - 1],
   cells |-> {c \in cube.cells : c[ax + 1] < cube.shape[ax + 1] - 1}]

\* while np.all(cube[0] == 0): cube = cube[1:]
\* (on an array with no occupied cell numpy raises IndexError once the axis is
\* used up; every caller passes an array with an occupied cell)
RECURSIVE StripFirst(_, _)
StripFirst(cube, ax) ==
  IF cube.shape[ax + 1] > 0 /\ \A c \in cube.cells : c[ax + 1] # 0
  THEN StripFirst(DropFirst(cube, ax), ax)
  ELSE cube

\* while np.all(cube[-1] == 0): cube = cube[:-1]
RECURSIVE StripLast(_, _)
StripLast(cube, ax) ==
  IF cube.shape[ax + 1] > 0 /\ \A c \in cube.cells : c[ax + 1] # cube.shape[ax + 1] - 1
  THEN StripLast(DropLast(cube, ax), ax)
  ELSE cube

\* crop_cube that strips leading slices only
crop_cube_leading(cube) == StripFirst(StripFirst(StripFirst(cube, 0), 1), 2)

\* the loop body for axis i: swap axis i to the front, strip, swap back
CropAxis(cube, i) ==
  swapaxes(StripLast(StripFirst(swapaxes(cube, 0, i), 0), 0), 0, i)

crop_cube(cube) == CropAxis(CropAxis(CropAxis(cube, 0), 1), 2)

\* ------------------------------------------------------ expand_cube
\* output_cube[xs+dx, ys+dy, zs+dz] = 1 for every non-zero (xs, ys, zs)
SetShifted(out, src, d) ==
  [out EXCEPT !.cells = @ \cup {<<c[1] + d[1], c[2] + d[2], c[3] + d[3]>> : c \in src.cells}]

\* output_cube ^ cube, on arrays of equal shape
xor(p, q) == [shape |-> p.shape, cells |-> (p.cells \ q.cells) \cup (q.cells \ p.cells)]

\* the neighbours marked on five of the six sides only
Shifts5 == <<<<1, 0, 0>>, <<-1, 0, 0>>, <<0, 1, 0>>, <<0, -1, 0>>, <<0, 0, 1>>>>

\* the sixth shift goes to an edge neighbour instead of a face neighbour
ShiftsDiagonal == <<<<1, 0, 0>>, <<-1, 0, 0>>, <<0, 1, 0>>, <<0, -1, 0>>, <<0, 0, 1>>, <<1, 1, 0>>>>

\* lines 83-88: the six shifts of the occupied cells
Shifts == <<<<1, 0, 0>>, <<-1, 0, 0>>, <<0, 1, 0>>, <<0, -1, 0>>, <<0, 0, 1>>, <<0, 0, -1>>>>

RECURSIVE MarkNeighbours(_, _, _)
MarkNeighbours(out, src, i) ==
  IF i > Len(Shifts) THEN out ELSE MarkNeighbours(SetShifted(out, src, Shifts[i]), src, i + 1)

\* the candidates the generator yields, in the order it yields them
expand_cube(cube) ==
  LET padded == pad(cube)
      exp == nonzero(xor(MarkNeighbours(padded, padded, 1), padded))
  IN  [j \in 1 .. Len(exp) |-> crop_cube([padded EXCEPT !.cells = @ \cup {exp[j]}])]

\* -------------------------------------------------------------- rle
\* current = None before the first cell
None == 2

\* run lengths recorded without their sign
RunValueUnsigned(current, val) == val

\* val if current == 1 else -val
RunValue(current, val) == IF current = 1 THEN val ELSE -val

RECURSIVE rle_scan(_, _, _, _, _)
rle_scan(f, i, current, val, r) ==
  IF i > Len(f) THEN Append(r, RunValue(current, val))
  ELSE IF current = None THEN rle_scan(f, i + 1, f[i], 1, r)
  ELSE IF current = f[i] THEN rle_scan(f, i + 1, current, val + 1, r)
  ELSE rle_scan(f, i + 1, f[i], 1, Append(r, RunValue(current, val)))

rle(polycube) == rle_scan(flat(polycube), 1, None, 0, polycube.shape)

\* -------------------------------------------------- cube_exists_rle
\* the candidate is looked up as it stands, its rotations are not
cube_exists_rle_unrotated(polycube, rles) == rle(polycube) \in rles

cube_exists_rle(polycube, rles) ==
  LET rotations == all_rotations(polycube)
  IN  \E i \in 1 .. Len(rotations) : rle(rotations[i]) \in rles

\* ------------------------------------------------------------ state
VARIABLES
  pc,            \* "idle", "enter" (at line 112 of a frame), "loop" (in the loop of lines 133-138), "returned"
  n,             \* the size the caller asked for
  use_cache,     \* the caller's use_cache
  level,         \* the n of the frame that is running; the frames of level+1 .. n wait at line 131
  base_cubes,    \* the running frame's base_cubes
  idx,           \* the running frame's idx
  pending,       \* what expand_cube(base_cube) has still to yield
  polycubes,     \* the running frame's polycubes
  polycubes_rle, \* the running frame's polycubes_rle
  cache,         \* the files cubes_<k>.npy: whether each exists, and the collection it holds
  result,        \* what the caller's call returned
  fn,            \* the pure function last applied to arg
  arg,           \* an array given to a pure function
  arg2,          \* a second array, for the comparison of two fingerprints
  ret            \* what the pure function returned

gen_vars == <<pc, n, use_cache, level, base_cubes, idx, pending, polycubes, polycubes_rle,
              cache, result>>
fn_vars == <<fn, arg, arg2, ret>>
vars == <<pc, n, use_cache, level, base_cubes, idx, pending, polycubes, polycubes_rle,
          cache, result, fn, arg, arg2, ret>>

Sizes == (1 - NegN) .. MaxN

\* the cache files a call may touch: cubes_<k>.npy for k > 2
CacheKeys == 3 .. MaxN

NoFile == [exists |-> FALSE, data |-> <<>>]

\* os.path.exists(cache_path)
path_exists(k) == cache[k].exists

\* np.load that loses the record's contents
np_load_empty(k) == <<>>

\* np.load(cache_path, allow_pickle=True)
np_load(k) == cache[k].data

\* np.save(cache_path, np.array(polycubes, dtype=object), allow_pickle=True): the cache after it
np_save(k, collection) == [cache EXCEPT ![k] = [exists |-> TRUE, data |-> collection]]

\* the n < 1 base case handing back the single cube
BaseCaseNoEmpty(k) ==
  IF k <= 1 THEN <<ones(<<1, 1, 1>>)>> ELSE <<ones(<<2, 1, 1>>)>>

\* lines 112-117: what the frame returns when n <= 2
BaseCase(k) ==
  IF k < 1 THEN <<>>
  ELSE IF k = 1 THEN <<ones(<<1, 1, 1>>)>>
  ELSE <<ones(<<2, 1, 1>>)>>

\* the generator expand_cube(base_cubes[i]) (i 0-based), or nothing past the end
CandidatesOf(cubes, i) == IF i < Len(cubes) THEN expand_cube(cubes[i + 1]) ELSE <<>>

\* a frame returns `value`: to the caller when it is the outermost frame, otherwise
\* to line 131 of the frame above, which then starts its loop
Return(value) ==
  IF level = n
  THEN /\ pc' = "returned"
       /\ result' = value
       /\ UNCHANGED <<level, base_cubes, idx, pending, polycubes, polycubes_rle>>
  ELSE /\ pc' = "loop"
       /\ level' = level + 1
       /\ base_cubes' = value
       /\ idx' = 0
       /\ pending' = CandidatesOf(value, 0)
       /\ polycubes' = <<>>
       /\ polycubes_rle' = {}
       /\ UNCHANGED result

Init ==
  /\ pc = "idle"
  /\ n = 0
  /\ use_cache = FALSE
  /\ level = 0
  /\ base_cubes = <<>>
  /\ idx = 0
  /\ pending = <<>>
  /\ polycubes = <<>>
  /\ polycubes_rle = {}
  /\ cache = [k \in CacheKeys |-> NoFile]
  /\ result = <<>>
  /\ fn = "none"
  /\ arg = ones(<<1, 1, 1>>)
  /\ arg2 = ones(<<1, 1, 1>>)
  /\ ret = <<>>

\* a caller calls generate_polycubes(m, use_cache=uc)
Call(m, uc) ==
  /\ pc \in {"idle", "returned"}
  /\ pc' = "enter"
  /\ n' = m
  /\ use_cache' = uc
  /\ level' = m
  /\ base_cubes' = <<>>
  /\ idx' = 0
  /\ pending' = <<>>
  /\ polycubes' = <<>>
  /\ polycubes_rle' = {}
  /\ result' = <<>>
  /\ UNCHANGED <<cache, fn, arg, arg2, ret>>

\* lines 112-117
ReturnBase ==
  /\ pc = "enter"
  /\ level <= 2
  /\ Return(BaseCase(level))
  /\ UNCHANGED <<n, use_cache, cache, fn, arg, arg2, ret>>

\* lines 120-125
CacheHit ==
  /\ pc = "enter"
  /\ level > 2
  /\ use_cache /\ path_exists(level)
  /\ Return(np_load(level))
  /\ UNCHANGED <<n, use_cache, cache, fn, arg, arg2, ret>>

\* lines 128-131: the frame calls generate_polycubes(n-1, use_cache)
Recurse ==
  /\ pc = "enter"
  /\ level > 2
  /\ ~(use_cache /\ path_exists(level))
  /\ level' = level - 1
  /\ UNCHANGED <<pc, n, use_cache, base_cubes, idx, pending, polycubes, polycubes_rle,
                 cache, result, fn, arg, arg2, ret>>

\* lines 135-138: the next candidate of expand_cube(base_cube) is appended, and its
\* fingerprint added, unless cube_exists_rle finds one of its rotations
Consider ==
  /\ pc = "loop"
  /\ pending # <<>>
  /\ IF cube_exists_rle(Head(pending), polycubes_rle)
     THEN UNCHANGED <<polycubes, polycubes_rle>>
     ELSE /\ polycubes' = Append(polycubes, Head(pending))
          /\ polycubes_rle' = polycubes_rle \cup {rle(Head(pending))}
  /\ pending' = Tail(pending)
  /\ UNCHANGED <<pc, n, use_cache, level, base_cubes, idx, cache, result, fn, arg, arg2, ret>>

\* line 133: the next base cube
NextBase ==
  /\ pc = "loop"
  /\ pending = <<>>
  /\ idx + 1 < Len(base_cubes)
  /\ idx' = idx + 1
  /\ pending' = CandidatesOf(base_cubes, idx + 1)
  /\ UNCHANGED <<pc, n, use_cache, level, base_cubes, polycubes, polycubes_rle,
                 cache, result, fn, arg, arg2, ret>>

\* the loop of line 133 has no base cube left
LoopDone == pc = "loop" /\ pending = <<>> /\ idx + 1 >= Len(base_cubes)

\* lines 146-150
Finish ==
  /\ LoopDone
  /\ cache' = IF use_cache THEN np_save(level, polycubes) ELSE cache
  /\ Return(polycubes)
  /\ UNCHANGED <<n, use_cache, fn, arg, arg2, ret>>

Next ==
  \/ \E m \in Sizes, uc \in BOOLEAN : Call(m, uc)
  \/ ReturnBase
  \/ CacheHit
  \/ Recurse
  \/ Consider
  \/ NextBase
  \/ Finish

Spec == Init /\ [][Next]_vars

\* ---------------------------------- the pure functions on their own
\* every shape of volume at most v, and every {0,1} array of such a shape
ShapesUpTo(v) == {sh \in (1 .. v) \X (1 .. v) \X (1 .. v) : Volume(sh) <= v}

ArraysUpTo(v) == UNION {{[shape |-> sh, cells |-> c] : c \in SUBSET Box(sh)} : sh \in ShapesUpTo(v)}

InitFn ==
  /\ pc = "idle"
  /\ n = 0
  /\ use_cache = FALSE
  /\ level = 0
  /\ base_cubes = <<>>
  /\ idx = 0
  /\ pending = <<>>
  /\ polycubes = <<>>
  /\ polycubes_rle = {}
  /\ cache = [k \in CacheKeys |-> NoFile]
  /\ result = <<>>
  /\ fn = "none"
  /\ arg \in ArraysUpTo(MaxVol)
  /\ arg2 = arg
  /\ ret = <<>>

\* list(all_rotations(arg))
ApplyAllRotations ==
  /\ fn = "none"
  /\ fn' = "all_rotations"
  /\ ret' = all_rotations(arg)
  /\ UNCHANGED <<arg, arg2>>
  /\ UNCHANGED gen_vars

\* list(expand_cube(arg))
ApplyExpandCube ==
  /\ fn = "none"
  /\ fn' = "expand_cube"
  /\ ret' = expand_cube(arg)
  /\ UNCHANGED <<arg, arg2>>
  /\ UNCHANGED gen_vars

\* rle(arg) and rle(b)
ApplyRle(b) ==
  /\ fn = "none"
  /\ fn' = "rle"
  /\ arg2' = b
  /\ ret' = <<rle(arg), rle(b)>>
  /\ UNCHANGED arg
  /\ UNCHANGED gen_vars

NextFn ==
  \/ ApplyAllRotations
  \/ ApplyExpandCube
  \/ \E b \in (IF Volume(arg.shape) <= MaxPairVol THEN ArraysUpTo(MaxPairVol) ELSE {arg}) : ApplyRle(b)

SpecFn == InitFn /\ [][NextFn]_vars

\* ------------------------------------------- what the claims speak of
\* The 24 proper rotations of the cube, as signed permutations of the axes: new
\* axis j is old axis p[j], reversed when s[j] = -1; proper when the determinant,
\* the permutation's sign times the product of the s[j], is +1.
Permutations3 == {p \in [1 .. 3 -> 1 .. 3] : \A i, j \in 1 .. 3 : i # j => p[i] # p[j]}

PermSign(p) ==
  LET inversions == Cardinality({ij \in (1 .. 3) \X (1 .. 3) : ij[1] < ij[2] /\ p[ij[1]] > p[ij[2]]})
  IN  IF inversions % 2 = 0 THEN 1 ELSE -1

Orientations == {[p |-> p, s |-> s] : p \in Permutations3, s \in [1 .. 3 -> {1, -1}]}

Det(R) == PermSign(R.p) * R.s[1] * R.s[2] * R.s[3]

Rot24 == {R \in Orientations : Det(R) = 1}

\* the image of array m under orientation R
ApplyRot(R, m) ==
  [shape |-> [j \in 1 .. 3 |-> m.shape[R.p[j]]],
   cells |-> {[j \in 1 .. 3 |-> IF R.s[j] = 1 THEN c[R.p[j]] ELSE m.shape[R.p[j]] - 1 - c[R.p[j]]]
              : c \in m.cells}]

\* b is a rotation of a
SameShape(a, b) ==
  \E R \in Rot24 :
    /\ \A j \in 1 .. 3 : b.shape[j] = a.shape[R.p[j]]
    /\ ApplyRot(R, a) = b

NoTwoRotations(cubes) ==
  \A i, j \in 1 .. Len(cubes) : i < j => ~SameShape(cubes[i], cubes[j])

\* both the first and the last slice along every axis hold an occupied cell
Tight(g) ==
  \A j \in 1 .. 3 :
    /\ \E c \in g.cells : c[j] = 0
    /\ \E c \in g.cells : c[j] = g.shape[j] - 1

\* two cells that differ by 1 in exactly one coordinate
FaceAdjacent(c, d) ==
  \E j \in 1 .. 3 :
    /\ c[j] - d[j] \in {1, -1}
    /\ \A k \in (1 .. 3) \ {j} : c[k] = d[k]

RECURSIVE ReachFrom(_, _)
ReachFrom(seen, cells) ==
  LET more == {c \in cells \ seen : \E d \in seen : FaceAdjacent(c, d)}
  IN  IF more = {} THEN seen ELSE ReachFrom(seen \cup more, cells)

Connected(g) ==
  g.cells # {} /\ ReachFrom({CHOOSE c \in g.cells : TRUE}, g.cells) = g.cells

InBox(g) == g.cells \subseteq Box(g.shape)

\* the number of polycubes of size 1 .. 8
KnownCounts == <<1, 1, 2, 8, 29, 166, 1023, 6922>>

TypeOK ==
  /\ pc \in {"idle", "enter", "loop", "returned"}
  /\ n \in Sizes /\ level \in Sizes /\ level <= n
  /\ use_cache \in BOOLEAN
  /\ idx \in 0 .. Len(base_cubes)
  /\ \A i \in 1 .. Len(polycubes) : InBox(polycubes[i])
  /\ \A i \in 1 .. Len(pending) : InBox(pending[i])
  /\ Cardinality(polycubes_rle) = Len(polycubes)

C2_NoRotatedDuplicates ==
  /\ \A i \in 1 .. Len(polycubes) - 1 : ~SameShape(polycubes[i], polycubes[Len(polycubes)])
  /\ LoopDone => NoTwoRotations(polycubes)
  /\ (pc = "returned" /\ n >= 1) => NoTwoRotations(result)

C2_Witness == LoopDone /\ level = MaxN /\ Len(polycubes) > 1

AllRotationsExist(shape, rles) ==
  LET rotations == all_rotations(shape)
  IN  Len(rotations) = 24 /\ \A k \in 1 .. 24 : cube_exists_rle(rotations[k], rles)

\* C3: every one of the 24 grids all_rotations yields for an accepted shape is
\* reported as existing by cube_exists_rle against the level's polycubes_rle: for
\* the shape just accepted in every state of the loop, and for every accepted
\* shape when the loop is done.
C3_RotationsExist ==
  /\ polycubes # <<>> => AllRotationsExist(polycubes[Len(polycubes)], polycubes_rle)
  /\ LoopDone => \A i \in 1 .. Len(polycubes) : AllRotationsExist(polycubes[i], polycubes_rle)

C3_Witness ==
  /\ LoopDone /\ level = MaxN
  /\ \E i \in 1 .. Len(polycubes) : rle(all_rotations(polycubes[i])[9]) \notin polycubes_rle

\* C5 as stated: a call with n < 1 gives its caller no result.
C5_NoResultBelowOne == n < 1 => pc # "returned"

\* C5 as amended: a frame entered with n < 1 returns the empty collection at once,
\* with no recursion, no expansion and the cache untouched.
C5_EmptyBelowOne ==
  [][(pc = "enter" /\ n < 1) =>
       /\ pc' = "returned"
       /\ result' = <<>>
       /\ UNCHANGED <<cache, level, base_cubes, idx, pending, polycubes, polycubes_rle>>]_vars

C5_Witness == pc = "returned" /\ n < 1 /\ result = <<>> /\ polycubes = <<>>

\* C6: with the cache enabled and n > 2, a call that finds a record for n returns
\* its contents at once and changes nothing else (no recursion, no expansion, no
\* write); one that finds none recurses to n-1 with the cache untouched, takes as
\* its base cubes what the frame of n-1 returns and, when it returns, has written
\* exactly the record of n, holding the collection it returns; no step of a call
\* alters a record that exists.
C6_CacheFrame ==
  [][(n > 2 /\ use_cache) =>
       /\ (pc = "enter" /\ level = n /\ cache[n].exists) =>
            /\ pc' = "returned"
            /\ result' = cache[n].data
            /\ UNCHANGED <<cache, level, base_cubes, idx, pending, polycubes, polycubes_rle>>
       /\ (pc = "enter" /\ level = n /\ ~cache[n].exists) =>
            /\ pc' = "enter" /\ level' = n - 1
            /\ UNCHANGED <<cache, polycubes, polycubes_rle>>
       /\ (pc = "enter" /\ level = n - 1 /\ level' = n) =>
            /\ pc' = "loop"
            /\ base_cubes' = (IF n - 1 > 2 THEN cache[n - 1].data ELSE BaseCase(n - 1))
       /\ (pc = "loop" /\ level = n - 1 /\ level' = n) =>
            /\ pc' = "loop"
            /\ base_cubes' = polycubes
       /\ (pc = "loop" /\ level = n /\ pc' = "returned") =>
            /\ result' = polycubes
            /\ cache'[n] = [exists |-> TRUE, data |-> polycubes]
            /\ \A k \in CacheKeys \ {n} : cache'[k] = cache[k]
       /\ \A k \in CacheKeys : cache[k].exists => cache'[k] = cache[k]
    ]_vars

\* a call that hit the cache: it returned a collection and built none
C6_Witness ==
  pc = "returned" /\ use_cache /\ n > 2 /\ polycubes = <<>> /\ result # <<>> /\ cache[n].data = result

\* C7: every grid of a returned collection is bounding-box-tight.
C7_Tight == pc = "returned" => \A i \in 1 .. Len(result) : Tight(result[i])

C7_Witness == pc = "returned" /\ n = MaxN /\ \E i \in 1 .. Len(result) : result[i].shape = <<2, 2, 2>>

\* C8: every grid of the collection returned for n >= 1 has exactly n occupied
\* cells and is face-connected.
C8_SizeAndConnected ==
  (pc = "returned" /\ n >= 1) =>
    \A i \in 1 .. Len(result) :
      /\ InBox(result[i])
      /\ Cardinality(result[i].cells) = n
      /\ Connected(result[i])

C8_Witness ==
  pc = "returned" /\ n = MaxN /\ \E i \in 1 .. Len(result) : Cardinality(result[i].cells) = MaxN

\* an array that no orientation but the identity maps to itself, reflections included
Probe == [shape |-> <<3, 2, 2>>, cells |-> {<<0, 0, 0>>, <<1, 0, 1>>}]

ProbeRotations == all_rotations(Probe)

\* the 24 rotations of g are 24 different arrays
Asymmetric(g) == Cardinality({ApplyRot(R, g) : R \in Rot24}) = 24

\* C4: all_rotations yields exactly 24 grids, the images of the input under the 24
\* pairwise distinct proper rotations: the k-th grid is the image under the one
\* proper rotation that takes the probe to its own k-th grid, these 24 are all
\* different and are all of the group, and an input with no rotational symmetry
\* is yielded as 24 different grids.
C4_TwentyFourRotations ==
  fn = "all_rotations" =>
    /\ Cardinality({ApplyRot(R, Probe) : R \in Orientations}) = 48
    /\ Len(ret) = 24 /\ Len(ProbeRotations) = 24
    /\ \A k \in 1 .. 24 :
         \E R \in Rot24 : ApplyRot(R, Probe) = ProbeRotations[k] /\ ApplyRot(R, arg) = ret[k]
    /\ \A k, l \in 1 .. 24 : k # l => ProbeRotations[k] # ProbeRotations[l]
    /\ {ret[k] : k \in 1 .. 24} = {ApplyRot(R, arg) : R \in Rot24}
    /\ Asymmetric(arg) => \A k, l \in 1 .. 24 : k # l => ret[k] # ret[l]

C4_Witness == fn = "all_rotations" /\ Asymmetric(arg) /\ Len(ret) = 24

\* the frontier of g in the indices of the padded array: the empty cells
\* face-adjacent to an occupied cell
Frontier(g) ==
  LET occupied == {<<c[1] + 1, c[2] + 1, c[3] + 1>> : c \in g.cells}
  IN  {f \in Box(<<g.shape[1] + 2, g.shape[2] + 2, g.shape[3] + 2>>) \ occupied :
         \E c \in occupied : FaceAdjacent(f, c)}

LexLess(c, d) ==
  \/ c[1] < d[1]
  \/ c[1] = d[1] /\ c[2] < d[2]
  \/ c[1] = d[1] /\ c[2] = d[2] /\ c[3] < d[3]

Min(S) == CHOOSE x \in S : \A y \in S : x <= y
Max(S) == CHOOSE x \in S : \A y \in S : x >= y

\* the cells moved, all by the same offset, into their bounding box
Normalize(cells) ==
  LET lo == [j \in 1 .. 3 |-> Min({c[j] : c \in cells})]
      hi == [j \in 1 .. 3 |-> Max({c[j] : c \in cells})]
  IN  [shape |-> [j \in 1 .. 3 |-> hi[j] - lo[j] + 1],
       cells |-> {[j \in 1 .. 3 |-> c[j] - lo[j]] : c \in cells}]

\* C9: for a tight grid of k cells expand_cube yields one grid per frontier cell
\* (in the row-major order of the frontier cells), each the input's cells plus
\* that cell in the same relative positions, so of k+1 cells; the input is as it
\* was.
C9_OnePerFrontierCell ==
  (fn = "expand_cube" /\ Tight(arg)) =>
    LET occupied == {<<c[1] + 1, c[2] + 1, c[3] + 1>> : c \in arg.cells}
        F == Frontier(arg)
    IN  /\ Len(ret) = Cardinality(F)
        /\ \A f \in F :
             LET rank == Cardinality({g \in F : LexLess(g, f)}) + 1
             IN  /\ ret[rank] = Normalize(occupied \cup {f})
                 /\ Cardinality(ret[rank].cells) = Cardinality(arg.cells) + 1
        /\ arg = arg2

\* a tight grid with a frontier cell adjacent to two occupied cells
C9_Witness ==
  /\ fn = "expand_cube" /\ Tight(arg) /\ Len(ret) > 0
  /\ \E f \in Frontier(arg) :
       Cardinality({c \in arg.cells : FaceAdjacent(f, <<c[1] + 1, c[2] + 1, c[3] + 1>>)}) >= 2

\* the cells a sequence of signed run lengths stands for
RECURSIVE Unroll(_)
Unroll(runs) ==
  IF runs = <<>> THEN <<>>
  ELSE LET k == Head(runs)
       IN  [i \in 1 .. (IF k > 0 THEN k ELSE -k) |-> IF k > 0 THEN 1 ELSE 0] \o Unroll(Tail(runs))

\* C10: rle is the three dimension sizes followed by one signed length per maximal
\* run of the row-major flattening (positive for occupied, negative for empty),
\* and two grids have the same fingerprint exactly when they have the same
\* dimensions and the same cells.
C10_RleExactKey ==
  fn = "rle" =>
    LET r == ret[1]
        runs == SubSeq(r, 4, Len(r))
        cellsOf == Unroll(runs)
    IN  /\ Len(r) >= 4
        /\ SubSeq(r, 1, 3) = arg.shape
        /\ \A i \in 1 .. Len(runs) : runs[i] # 0
        /\ \A i \in 1 .. Len(runs) - 1 : (runs[i] > 0) # (runs[i + 1] > 0)
        /\ Len(cellsOf) = Volume(arg.shape)
        /\ \A c \in Box(arg.shape) :
             (cellsOf[(c[1] * arg.shape[2] + c[2]) * arg.shape[3] + c[3] + 1] = 1) <=> (c \in arg.cells)
        /\ (ret[1] = ret[2]) <=> (arg = arg2)

\* two different grids of the same dimensions and the same number of runs
C10_Witness ==
  /\ fn = "rle" /\ arg # arg2 /\ arg.shape = arg2.shape
  /\ Len(ret[1]) = Len(ret[2]) /\ Len(ret[1]) > 5
  /\ ret[1] # ret[2]

====
